---- MODULE Spec2Model ----
(***************************************************************************)
(* Model of the reconciliation engine of convex-agent-svelte:              *)
(*   - dedupeMessages / mergeMessages (message merger, useUIMessages)      *)
(*   - createPaginatedStore (paginated history engine, useUIMessages)      *)
(*   - useDeltaStreams (cursor-tracked delta aggregator)                   *)
(*   - useStreamingUIMessages (streaming message materializer)             *)
(* Each component has its own specification; the variables of the other    *)
(* components stay at their initial value in it.                           *)
(***************************************************************************)
EXTENDS Integers, Sequences, FiniteSets, TLC

VARIABLES
  \* ---- merger, called as a pure function
  messages,        \* first argument of dedupeMessages
  streamMessages,  \* second argument of dedupeMessages
  merged,          \* its return value
  mergeDone,       \* whether the call has returned
  \* ---- createPaginatedStore (history engine)
  currentArgs,     \* "skip" or the argument identity
  historical,      \* accumulated older pages
  latest,          \* latest page
  nextCursor,      \* continuation cursor, "null" when there is none
  loadingInitial,
  loadingOlder,
  store,           \* value published by store.set
  fetches,         \* one-shot client.query calls in flight, in issue order
  olderPromise,    \* promise returned by the loadMore call that issued a fetch
  hEvent,          \* the callback of the history engine that ran last
  \* ---- useDeltaStreams (delta aggregator)
  sArgs,           \* argsInput: "skip" or the thread of the stream query
  threadId,        \* state.threadId, "undefined" when unset
  startOrder,      \* state.startOrder
  optionStart,     \* options.startOrder, -1 when undefined
  listStart,       \* startOrder last sent in the list query since the last
                   \* reset, -1 when none
  deltaStreams,    \* state.deltaStreams
  cursors,         \* cursors: streamId -> offset, for the ids it holds
  aggPublished,    \* value the aggregator handed to set()
  aEvent,          \* the callback of the aggregator that ran last
  \* ---- useStreamingUIMessages (materializer)
  subscribed,      \* whether the materializer consumes the aggregator
  uiPublished,     \* value the materializer handed to set()
  passes,          \* materialization passes in flight, in start order
  mEvent,          \* what the materializer did last
  \* ---- a stream's delta sequence delivered in batches
  fullSeq,         \* the whole contiguous delta sequence of one stream
  delivered        \* how many of its deltas have been delivered

mergeVars == <<messages, streamMessages, merged, mergeDone>>

histVars == <<currentArgs, historical, latest, nextCursor, loadingInitial,
              loadingOlder, store, fetches, olderPromise, hEvent>>

aggVars == <<sArgs, threadId, startOrder, optionStart, listStart, deltaStreams,
             cursors, aggPublished, aEvent>>

matVars == <<subscribed, uiPublished, passes, mEvent>>

batchVars == <<fullSeq, delivered>>

streamVars == <<aggVars, matVars, batchVars>>

vars == <<mergeVars, histVars, streamVars>>

----------------------------------------------------------------------------
\* Bounds of the model
MaxLen == 3        \* total number of messages handed to one merge
MaxPage == 2       \* messages in one fetched page
MaxFetches == 2    \* one-shot fetches in flight at a time
MaxOffset == 3     \* largest offset of a delta
MaxBatch == 2      \* deltas in one result of the deltas query
MaxPasses == 2     \* materialization passes in flight at a time
MaxDeltas == 3     \* deltas of the sequence delivered in batches

\* Message universe: UIMessageLike {order, stepOrder, status, parts}
\* (text stands for the content of the message)
MsgKeys == {<<1, 0>>, <<1, 1>>, <<2, 0>>}
Statuses == {"pending", "streaming", "finalized", "failed"}
Texts == {"A", "B"}

Msg(k, st, t) == [order |-> k[1], stepOrder |-> k[2], status |-> st, text |-> t]

Messages == {Msg(k, st, t) : k \in MsgKeys, st \in Statuses, t \in Texts}

\* Argument identities of the history engine, and what the backend holds
\* for each: the messages of thread a carry the text a
Threads == {"A", "B"}
ArgsValues == Threads \cup {"skip"}
Cursors == {"c1"}
\* settled older message, and a newest message that may still be streaming
ThreadMessages(a) ==
  {Msg(<<1, 1>>, "finalized", a), Msg(<<2, 0>>, "finalized", a),
   Msg(<<2, 0>>, "streaming", a)}
NumItems == {0, 1}

SeqsUpTo(S, n) == UNION {[1..k -> S] : k \in 0..n}

----------------------------------------------------------------------------
\* The merger

\* (order, stepOrder) comparison used by sorted()
KeyLess(a, b) ==
  \/ a.order < b.order
  \/ a.order = b.order /\ a.stepOrder < b.stepOrder

SameKey(a, b) == a.order = b.order /\ a.stepOrder = b.stepOrder

\* insertion of x after every element that is not greater (stable)
RECURSIVE InsertSorted(_, _)
InsertSorted(s, x) ==
  IF s = <<>> THEN <<x>>
  ELSE IF KeyLess(x, Head(s)) THEN <<x>> \o s
       ELSE <<Head(s)>> \o InsertSorted(Tail(s), x)

\* sorted(items): a sorted copy, ascending by (order, stepOrder), stable
RECURSIVE sorted(_)
sorted(s) ==
  IF s = <<>> THEN <<>>
  ELSE InsertSorted(sorted(SubSeq(s, 1, Len(s) - 1)), s[Len(s)])

Provisional(st) == st = "pending" \/ st = "streaming"

\* mutants of the reducer
dedupeStepAppendOnReplace(msgs, msg) ==
  IF msgs = <<>> THEN <<msg>>
  ELSE LET last == msgs[Len(msgs)] IN
    IF last.order # msg.order \/ last.stepOrder # msg.stepOrder
      THEN Append(msgs, msg)
    ELSE IF Provisional(last.status) /\ msg.status # "pending"
      THEN Append(msgs, msg)
    ELSE msgs

dedupeStepKeepFirst(msgs, msg) ==
  IF msgs = <<>> THEN <<msg>>
  ELSE LET last == msgs[Len(msgs)] IN
    IF last.order # msg.order \/ last.stepOrder # msg.stepOrder
      THEN Append(msgs, msg)
    ELSE msgs

\* the reducer of dedupeMessages: (msgs, msg) => ...
dedupeStep(msgs, msg) ==
  IF msgs = <<>> THEN <<msg>>
  ELSE LET last == msgs[Len(msgs)] IN
    IF last.order # msg.order \/ last.stepOrder # msg.stepOrder
      THEN Append(msgs, msg)
    ELSE IF (last.status = "pending" \/ last.status = "streaming")
            /\ msg.status # "pending"
      THEN Append(SubSeq(msgs, 1, Len(msgs) - 1), msg)
    ELSE msgs

RECURSIVE Reduce(_, _)
Reduce(s, acc) ==
  IF s = <<>> THEN acc ELSE Reduce(Tail(s), dedupeStep(acc, Head(s)))

dedupeMessagesUnsorted(ms, sms) == Reduce(ms \o sms, <<>>)

dedupeMessages(ms, sms) == Reduce(sorted(ms \o sms), <<>>)

mergeMessages(paginated, streaming) ==
  IF streaming = <<>> THEN paginated ELSE dedupeMessages(paginated, streaming)

----------------------------------------------------------------------------
StrictlyAscending(s) ==
  \A i \in 1..(Len(s) - 1) : KeyLess(s[i], s[i + 1])

----------------------------------------------------------------------------
\* Specification of the merger as a pure function

MergeIdle ==
  /\ messages = <<>>
  /\ streamMessages = <<>>
  /\ merged = <<>>
  /\ mergeDone = FALSE

MergeInit ==
  /\ \E n \in 0..MaxLen :
       \E k \in 0..n :
         /\ messages \in [1..k -> Messages]
         /\ streamMessages \in [1..(n - k) -> Messages]
  /\ merged = <<>>
  /\ mergeDone = FALSE

Dedupe ==
  /\ ~mergeDone
  /\ merged' = dedupeMessages(messages, streamMessages)
  /\ mergeDone' = TRUE
  /\ UNCHANGED <<messages, streamMessages>>
  /\ UNCHANGED <<histVars, streamVars>>

----------------------------------------------------------------------------
\* createPaginatedStore: the paginated history engine

\* combineUIMessages() joins the parts of neighbouring messages; the exposed
\* result is the merger of historical and latest pages
combineUIMessages(ms) == ms

computeStatus(args, li, lo, nc) ==
  IF args = "skip" THEN "LoadingFirstPage"
  ELSE IF li THEN "LoadingFirstPage"
  ELSE IF lo THEN "LoadingMore"
  ELSE IF nc # "null" THEN "CanLoadMore" ELSE "Exhausted"

\* the value updateStatus() hands to store.set
StoreValue(args, hist, lat, nc, li, lo) ==
  LET status == computeStatus(args, li, lo, nc) IN
  [results   |-> combineUIMessages(sorted(dedupeMessages(hist \o lat, <<>>))),
   status    |-> status,
   isLoading |-> status = "LoadingFirstPage" \/ status = "LoadingMore"]

updateStatus ==
  store' = StoreValue(currentArgs', historical', latest', nextCursor',
                      loadingInitial', loadingOlder')

\* what a query of the backend can return for argument identity a
DistinctKeys(p) ==
  \A i, j \in 1..Len(p) : i # j => ~SameKey(p[i], p[j])

\* a page holds each message once; a finished page carries no cursor
Pages(a) == {p \in SeqsUpTo(ThreadMessages(a), MaxPage) : DistinctKeys(p)}
Results(a) ==
  {r \in [page : Pages(a), isDone : BOOLEAN,
          continueCursor : Cursors \cup {"null"}] :
     r.isDone <=> r.continueCursor = "null"}

CursorOf(result) == IF result.isDone THEN "null" ELSE result.continueCursor

Event(op, a, n) == [op |-> op, args |-> a, n |-> n]

\* the state after construction: both subscriptions have delivered their
\* first value (the arguments, and no live result yet)
HistInitFor(a) ==
  /\ currentArgs = a
  /\ historical = <<>>
  /\ latest = <<>>
  /\ nextCursor = "null"
  /\ loadingInitial = FALSE
  /\ loadingOlder = FALSE
  /\ store = StoreValue(a, <<>>, <<>>, "null", FALSE, FALSE)
  /\ fetches = <<>>
  /\ olderPromise = "none"
  /\ hEvent = Event("init", a, 0)

HistIdle == HistInitFor("skip")

HistInit ==
  \E a \in ArgsValues :
    /\ currentArgs = a
    /\ historical = <<>>
    /\ latest = <<>>
    /\ nextCursor = "null"
    /\ loadingInitial = (a # "skip")
    /\ loadingOlder = FALSE
    /\ store = StoreValue(a, <<>>, <<>>, "null", a # "skip", FALSE)
    /\ fetches = IF a = "skip" THEN <<>>
                 ELSE <<[kind |-> "initial", args |-> a, cursor |-> "null"]>>
    /\ olderPromise = "none"
    /\ hEvent = Event("init", a, 0)

ArgsChangeKeepsPages(a) ==
  /\ UNCHANGED <<mergeVars, streamVars>>
  /\ a # currentArgs
  /\ a # "skip" => Len(fetches) < MaxFetches
  /\ currentArgs' = a
  /\ nextCursor' = "null"
  /\ loadingInitial' = (a # "skip")
  /\ fetches' = IF a = "skip" THEN fetches
                ELSE Append(fetches,
                            [kind |-> "initial", args |-> a, cursor |-> "null"])
  /\ hEvent' = Event("argsChange", a, 0)
  /\ UNCHANGED <<historical, latest, loadingOlder, olderPromise>>
  /\ updateStatus

\* argsStore.subscribe callback, with fetchInitial up to its await
ArgsChange(a) ==
  /\ UNCHANGED <<mergeVars, streamVars>>
  /\ a # currentArgs
  /\ a # "skip" => Len(fetches) < MaxFetches
  /\ currentArgs' = a
  /\ historical' = <<>>
  /\ latest' = <<>>
  /\ nextCursor' = "null"
  /\ loadingInitial' = (a # "skip")
  /\ fetches' = IF a = "skip" THEN fetches
                ELSE Append(fetches,
                            [kind |-> "initial", args |-> a, cursor |-> "null"])
  /\ hEvent' = Event("argsChange", a, 0)
  /\ UNCHANGED <<loadingOlder, olderPromise>>
  /\ updateStatus

\* liveStore.subscribe callback while the arguments are "skip" (no live data)
LiveUpdateSkip ==
  /\ UNCHANGED <<mergeVars, streamVars>>
  /\ currentArgs = "skip"
  /\ latest' = <<>>
  /\ nextCursor' = "null"
  /\ loadingInitial' = FALSE
  /\ hEvent' = Event("liveUpdate", currentArgs, 0)
  /\ UNCHANGED <<currentArgs, historical, loadingOlder, fetches, olderPromise>>
  /\ updateStatus

\* liveStore.subscribe callback with a result of the live query
LiveUpdate(result) ==
  /\ UNCHANGED <<mergeVars, streamVars>>
  /\ currentArgs # "skip"
  /\ latest' = result.page
  /\ nextCursor' = CursorOf(result)
  /\ loadingInitial' = FALSE
  /\ hEvent' = Event("liveUpdate", currentArgs, 0)
  /\ UNCHANGED <<currentArgs, historical, loadingOlder, fetches, olderPromise>>
  /\ updateStatus

\* the early return of loadMore
LoadMoreInactive(n) ==
  \/ nextCursor = "null"
  \/ loadingOlder
  \/ currentArgs = "skip"
  \/ n <= 0

LoadMoreNoGuardOnLoading(n) ==
  /\ UNCHANGED <<mergeVars, streamVars>>
  /\ Len(fetches) < MaxFetches
  /\ hEvent' = Event("loadMore", currentArgs, n)
  /\ IF nextCursor = "null" \/ currentArgs = "skip" \/ n <= 0
       THEN UNCHANGED <<currentArgs, historical, latest, nextCursor,
                        loadingInitial, loadingOlder, store, fetches,
                        olderPromise>>
       ELSE /\ loadingOlder' = TRUE
            /\ fetches' = Append(fetches, [kind |-> "older",
                                 args |-> currentArgs, cursor |-> nextCursor])
            /\ olderPromise' = "pending"
            /\ UNCHANGED <<currentArgs, historical, latest, nextCursor,
                           loadingInitial>>
            /\ updateStatus

\* loadMore(numItems) up to its await
LoadMore(n) ==
  /\ UNCHANGED <<mergeVars, streamVars>>
  /\ LoadMoreInactive(n) \/ Len(fetches) < MaxFetches
  /\ hEvent' = Event("loadMore", currentArgs, n)
  /\ IF LoadMoreInactive(n)
       THEN UNCHANGED <<currentArgs, historical, latest, nextCursor,
                        loadingInitial, loadingOlder, store, fetches,
                        olderPromise>>
       ELSE /\ loadingOlder' = TRUE
            /\ fetches' = Append(fetches, [kind |-> "older",
                                 args |-> currentArgs, cursor |-> nextCursor])
            /\ olderPromise' = "pending"
            /\ UNCHANGED <<currentArgs, historical, latest, nextCursor,
                           loadingInitial>>
            /\ updateStatus

RemoveAt(s, i) == SubSeq(s, 1, i - 1) \o SubSeq(s, i + 1, Len(s))

\* client.query of fetchInitial resolves: the rest of fetchInitial
InitialResolve(i, result) ==
  /\ UNCHANGED <<mergeVars, streamVars>>
  /\ fetches[i].kind = "initial"
  /\ latest' = result.page
  /\ nextCursor' = CursorOf(result)
  /\ loadingInitial' = FALSE
  /\ fetches' = RemoveAt(fetches, i)
  /\ hEvent' = Event("initialResolved", fetches[i].args, 0)
  /\ UNCHANGED <<currentArgs, historical, loadingOlder, olderPromise>>
  /\ updateStatus

OlderResolveDropsStale(i, result) ==
  /\ UNCHANGED <<mergeVars, streamVars>>
  /\ fetches[i].kind = "older"
  /\ fetches' = RemoveAt(fetches, i)
  /\ olderPromise' = "fulfilled"
  /\ hEvent' = Event("olderResolved", fetches[i].args, 0)
  /\ UNCHANGED <<currentArgs, latest, loadingInitial>>
  /\ IF fetches[i].args = currentArgs
       THEN /\ historical' = dedupeMessages(historical \o result.page, <<>>)
            /\ nextCursor' = CursorOf(result)
            /\ loadingOlder' = FALSE
       ELSE UNCHANGED <<historical, nextCursor, loadingOlder>>
  /\ updateStatus

\* client.query of loadMore resolves: the rest of loadMore
OlderResolve(i, result) ==
  /\ UNCHANGED <<mergeVars, streamVars>>
  /\ fetches[i].kind = "older"
  /\ historical' = dedupeMessages(historical \o result.page, <<>>)
  /\ nextCursor' = CursorOf(result)
  /\ loadingOlder' = FALSE
  /\ fetches' = RemoveAt(fetches, i)
  /\ olderPromise' = "fulfilled"
  /\ hEvent' = Event("olderResolved", fetches[i].args, 0)
  /\ UNCHANGED <<currentArgs, latest, loadingInitial>>
  /\ updateStatus

FetchRejectKeepsLoading(i) ==
  /\ UNCHANGED <<mergeVars, streamVars>>
  /\ fetches' = RemoveAt(fetches, i)
  /\ olderPromise' = IF fetches[i].kind = "older" THEN "rejected"
                     ELSE olderPromise
  /\ hEvent' = Event(IF fetches[i].kind = "older" THEN "olderRejected"
                     ELSE "initialRejected", fetches[i].args, 0)
  /\ UNCHANGED <<currentArgs, historical, latest, nextCursor, loadingInitial,
                 loadingOlder, store>>

\* client.query rejects: the finally block of fetchInitial or loadMore
FetchReject(i) ==
  /\ UNCHANGED <<mergeVars, streamVars>>
  /\ loadingInitial' = IF fetches[i].kind = "initial" THEN FALSE
                       ELSE loadingInitial
  /\ loadingOlder' = IF fetches[i].kind = "older" THEN FALSE ELSE loadingOlder
  /\ fetches' = RemoveAt(fetches, i)
  /\ olderPromise' = IF fetches[i].kind = "older" THEN "rejected"
                     ELSE olderPromise
  /\ UNCHANGED <<currentArgs, historical, latest, nextCursor>>
  /\ hEvent' = Event(IF fetches[i].kind = "older" THEN "olderRejected"
                     ELSE "initialRejected", fetches[i].args, 0)
  /\ updateStatus

HistNext ==
  \/ \E a \in ArgsValues : ArgsChange(a)
  \/ LiveUpdateSkip
  \/ \E result \in Results(currentArgs) : LiveUpdate(result)
  \/ \E n \in NumItems : LoadMore(n)
  \/ \E i \in 1..Len(fetches) :
       \E result \in Results(fetches[i].args) : InitialResolve(i, result)
  \/ \E i \in 1..Len(fetches) :
       \E result \in Results(fetches[i].args) : OlderResolve(i, result)
  \/ \E i \in 1..Len(fetches) : FetchReject(i)

----------------------------------------------------------------------------
\* useDeltaStreams: the cursor-tracked delta aggregator

StreamIds == {"s1", "s2"}
StreamOrder(s) == IF s = "s1" THEN 5 ELSE 15
StreamMessage(s) == [streamId |-> s, order |-> StreamOrder(s), stepOrder |-> 0]

\* StreamDelta {streamId, start, end, parts}: its range stands for its parts
Deltas == {[streamId |-> s, start |-> a, end |-> b] :
             s \in StreamIds, a \in 0..MaxOffset, b \in 0..MaxOffset}
          \ {d \in [streamId : StreamIds, start : 0..MaxOffset,
                    end : 0..MaxOffset] : d.start >= d.end}
\* the deltas fed to the aggregator one result at a time carry one part each
UnitDeltas == {d \in Deltas : d.end = d.start + 1}
Batches == SeqsUpTo(UnitDeltas, MaxBatch)

\* DeltaStream[] | undefined
Undefined == [defined |-> FALSE, streams |-> <<>>]
Defined(v) == [defined |-> TRUE, streams |-> v]

NoCursors == [s \in {} |-> 0]

\* cursors[streamId], with undefined read as 0 (both are falsy)
CursorValue(cur, s) == IF s \in DOMAIN cur THEN cur[s] ELSE 0

TrackedIds(ds) == {ds.streams[i].streamMessage.streamId :
                     i \in 1..Len(ds.streams)}

BufferOf(ds, s) ==
  LET i == CHOOSE i \in 1..Len(ds.streams) :
             ds.streams[i].streamMessage.streamId = s
  IN ds.streams[i].deltas

normalizeStart(value) ==
  IF value < 0 THEN 0
  ELSE LET rounded == value - (value % 10) IN
       IF rounded < 0 THEN 0 ELSE rounded

\* getStartOrder?.() ?? 0
OptionStartOrZero == IF optionStart = -1 THEN 0 ELSE optionStart

AEvent(op, outcome) ==
  [op |-> op, outcome |-> outcome, gap |-> FALSE, replay |-> FALSE]

\* ---- the materializer's subscription to the aggregator

\* materialized message of one stream: its parts from offset 0
\* (getParts / updateFromUIMessageChunks / deriveUIMessagesFromTextStreamParts)
materialize(stream) ==
  [streamId |-> stream.streamMessage.streamId,
   parts    |-> [i \in 1..Len(stream.deltas) |->
                   <<stream.deltas[i].start, stream.deltas[i].end>>]]

materializeAll(streams) ==
  [i \in 1..Len(streams) |-> materialize(streams[i])]

\* abortController?.abort(); abortController = new AbortController()
AbortCurrent(ps) ==
  [i \in 1..Len(ps) |->
     IF ps[i].current
       THEN [ps[i] EXCEPT !.aborted = TRUE, !.current = FALSE]
       ELSE ps[i]]

KeepCurrent(ps) ==
  [i \in 1..Len(ps) |-> [ps[i] EXCEPT !.current = FALSE]]

StartPassNoAbort(value) ==
  /\ Len(passes) < MaxPasses
  /\ passes' = Append(KeepCurrent(passes),
                      [input |-> value.streams, aborted |-> FALSE,
                       current |-> TRUE])
  /\ mEvent' = [op |-> "passStarted", current |-> TRUE]
  /\ UNCHANGED uiPublished

\* streamStore.subscribe callback for a non-empty list of streams
StartPass(value) ==
  /\ Len(passes) < MaxPasses
  /\ passes' = Append(AbortCurrent(passes),
                      [input |-> value.streams, aborted |-> FALSE,
                       current |-> TRUE])
  /\ mEvent' = [op |-> "passStarted", current |-> TRUE]
  /\ UNCHANGED uiPublished

\* streamStore.subscribe callback for undefined or an empty list
PublishEmpty(value) ==
  /\ uiPublished' = IF value.defined THEN Defined(<<>>) ELSE Undefined
  /\ mEvent' = [op |-> "emptyPublished", current |-> FALSE]
  /\ UNCHANGED passes

\* set(value) of the aggregator's readable: subscribers run unless undefined
\* replaces undefined
Publish(value) ==
  /\ aggPublished' = value
  /\ IF ~subscribed \/ (~aggPublished.defined /\ ~value.defined)
       THEN UNCHANGED <<uiPublished, passes, mEvent>>
     ELSE IF ~value.defined \/ value.streams = <<>>
       THEN PublishEmpty(value)
     ELSE StartPass(value)
  /\ UNCHANGED subscribed

NoPublish == UNCHANGED <<aggPublished, matVars>>

\* ---- the aggregator's callbacks

resetStateKeepsCursors(tid) ==
  /\ threadId' = tid
  /\ deltaStreams' = Undefined
  /\ startOrder' = normalizeStart(OptionStartOrZero)
  /\ listStart' = -1
  /\ UNCHANGED cursors
  /\ Publish(Undefined)

resetState(tid) ==
  /\ threadId' = tid
  /\ deltaStreams' = Undefined
  /\ startOrder' = normalizeStart(OptionStartOrZero)
  /\ listStart' = -1
  /\ cursors' = NoCursors
  /\ Publish(Undefined)

\* argsStore.subscribe callback
StreamArgsChange(a) ==
  /\ a # sArgs
  /\ sArgs' = a
  /\ IF a = "skip"
       THEN resetState("undefined") /\ aEvent' = AEvent("args", "reset")
     ELSE IF threadId # "undefined" /\ threadId # a
       THEN resetState(a) /\ aEvent' = AEvent("args", "reset")
     ELSE /\ threadId' = a
          /\ aEvent' = AEvent("args", "ok")
          /\ UNCHANGED <<startOrder, listStart, deltaStreams, cursors>>
          /\ NoPublish
  /\ UNCHANGED <<optionStart, batchVars>>
  /\ UNCHANGED <<mergeVars, histVars>>

\* extractStreamMessages: the messages of the snapshot that pass the
\* startOrder filter, sorted by (order, stepOrder)
extractStreamMessages(ids) ==
  LET kept == {s \in ids : optionStart = -1 \/ optionStart = 0
                           \/ StreamOrder(s) >= optionStart}
      first == {s \in kept : \A t \in kept : StreamOrder(s) <= StreamOrder(t)}
  IN IF kept = {} THEN <<>>
     ELSE IF Cardinality(kept) = 1 THEN <<StreamMessage(CHOOSE s \in kept : TRUE)>>
     ELSE <<StreamMessage("s1"), StreamMessage("s2")>>

ListUpdateFreshBuffers(ids) ==
  /\ IF sArgs = "skip"
       THEN resetState("undefined") /\ aEvent' = AEvent("list", "reset")
     ELSE LET filtered == extractStreamMessages(ids)
              next == [i \in 1..Len(filtered) |->
                        [streamMessage |-> filtered[i], deltas |-> <<>>]]
              seen == {filtered[i].streamId : i \in 1..Len(filtered)}
          IN /\ deltaStreams' = Defined(next)
             /\ cursors' = [s \in DOMAIN cursors \cup seen |->
                              CursorValue(cursors, s)]
             /\ Publish(Defined(next))
             /\ aEvent' = AEvent("list", "applied")
             /\ UNCHANGED <<threadId, startOrder, listStart>>
  /\ UNCHANGED <<sArgs, optionStart, batchVars>>
  /\ UNCHANGED <<mergeVars, histVars>>

\* listStore.subscribe callback with a list snapshot naming the streams ids
ListUpdate(ids) ==
  /\ IF sArgs = "skip"
       THEN resetState("undefined") /\ aEvent' = AEvent("list", "reset")
     ELSE LET filtered == extractStreamMessages(ids)
              next == [i \in 1..Len(filtered) |->
                        LET sid == filtered[i].streamId IN
                        [streamMessage |-> filtered[i],
                         deltas |-> IF deltaStreams.defined
                                       /\ sid \in TrackedIds(deltaStreams)
                                    THEN BufferOf(deltaStreams, sid)
                                    ELSE <<>>]]
              seen == {filtered[i].streamId : i \in 1..Len(filtered)}
          IN /\ deltaStreams' = Defined(next)
             /\ cursors' = [s \in DOMAIN cursors \cup seen |->
                              CursorValue(cursors, s)]
             /\ Publish(Defined(next))
             /\ aEvent' = AEvent("list", "applied")
             /\ UNCHANGED <<threadId, startOrder, listStart>>
  /\ UNCHANGED <<sArgs, optionStart, batchVars>>
  /\ UNCHANGED <<mergeVars, histVars>>

NoNewDeltas == [s \in StreamIds |-> <<>>]

scanDeltaNoReplaySkip(acc, delta) ==
  IF acc.error THEN acc
  ELSE LET previousCursor == CursorValue(cursors, delta.streamId)
           existing == acc.new[delta.streamId]
       IN IF existing # <<>>
            THEN IF existing[Len(existing)].end = delta.start
                   THEN [acc EXCEPT !.new[delta.streamId] = Append(existing, delta)]
                   ELSE [acc EXCEPT !.error = TRUE]
          ELSE IF previousCursor # 0 /\ previousCursor # delta.start
            THEN [acc EXCEPT !.error = TRUE]
          ELSE [acc EXCEPT !.new[delta.streamId] = <<delta>>]

\* one iteration of the loop over result.streams.deltas; error stands for
\* the exception of a failed assert, which ends the callback
scanDelta(acc, delta) ==
  IF acc.error THEN acc
  ELSE LET previousCursor == CursorValue(cursors, delta.streamId)
           existing == acc.new[delta.streamId]
       IN IF previousCursor # 0 /\ delta.start < previousCursor
            THEN acc
          ELSE IF existing # <<>>
            THEN IF existing[Len(existing)].end = delta.start
                   THEN [acc EXCEPT !.new[delta.streamId] = Append(existing, delta)]
                   ELSE [acc EXCEPT !.error = TRUE]
          ELSE IF previousCursor # 0 /\ previousCursor # delta.start
            THEN [acc EXCEPT !.error = TRUE]
          ELSE [acc EXCEPT !.new[delta.streamId] = <<delta>>]

RECURSIVE scanDeltas(_, _)
scanDeltas(batch, acc) ==
  IF batch = <<>> THEN acc
  ELSE scanDeltas(Tail(batch), scanDelta(acc, Head(batch)))

newDeltasByStream(batch) ==
  scanDeltas(batch, [new |-> NoNewDeltas, error |-> FALSE])

appendDeltasReplacing(entry, appended) ==
  IF appended = <<>> THEN entry
  ELSE [streamMessage |-> entry.streamMessage, deltas |-> appended]

\* the map over state.deltaStreams that appends the new deltas of a stream
appendDeltas(entry, appended) ==
  IF appended = <<>> THEN entry
  ELSE [streamMessage |-> entry.streamMessage,
        deltas |-> entry.deltas \o appended]

Tracked(s) == deltaStreams.defined /\ s \in TrackedIds(deltaStreams)

\* batch[i] lies beyond the cursor of its tracked stream, and the deltas of
\* that stream before it in the batch lie before the cursor
GapAt(batch, i) ==
  /\ Tracked(batch[i].streamId)
  /\ batch[i].start > CursorValue(cursors, batch[i].streamId)
  /\ \A j \in 1..(i - 1) :
       batch[j].streamId = batch[i].streamId
         => batch[j].start < CursorValue(cursors, batch[i].streamId)

\* every delta of the batch lies before the cursor of its tracked stream
AllReplayed(batch) ==
  /\ batch # <<>>
  /\ \A i \in 1..Len(batch) :
       /\ Tracked(batch[i].streamId)
       /\ batch[i].start < CursorValue(cursors, batch[i].streamId)

DeltasEvent(outcome, batch) ==
  [op |-> "deltas", outcome |-> outcome,
   gap |-> \E i \in 1..Len(batch) : GapAt(batch, i),
   replay |-> AllReplayed(batch)]

DeltasHandlerAppliesBeforeError(batch) ==
  /\ IF batch = <<>> \/ ~deltaStreams.defined \/ deltaStreams.streams = <<>>
       THEN /\ aEvent' = DeltasEvent("ignored", batch)
            /\ UNCHANGED <<deltaStreams, cursors>>
            /\ NoPublish
     ELSE LET scan == newDeltasByStream(batch) IN
       IF scan.new = NoNewDeltas
         THEN /\ aEvent' = DeltasEvent(IF scan.error THEN "error" ELSE "ignored",
                                       batch)
              /\ UNCHANGED <<deltaStreams, cursors>>
              /\ NoPublish
       ELSE LET next == [i \in 1..Len(deltaStreams.streams) |->
                           appendDeltas(deltaStreams.streams[i],
                             scan.new[deltaStreams.streams[i]
                                        .streamMessage.streamId])]
                grown == {s \in TrackedIds(deltaStreams) : scan.new[s] # <<>>}
            IN /\ deltaStreams' = Defined(next)
               /\ cursors' = [s \in DOMAIN cursors \cup grown |->
                                IF s \in grown
                                  THEN LET b == BufferOf(Defined(next), s)
                                       IN b[Len(b)].end
                                  ELSE cursors[s]]
               /\ Publish(Defined(next))
               /\ aEvent' = DeltasEvent(IF scan.error THEN "error" ELSE "applied",
                                        batch)
  /\ UNCHANGED <<sArgs, threadId, startOrder, optionStart, listStart>>
  /\ UNCHANGED <<mergeVars, histVars>>

\* deltasStore.subscribe callback with the deltas of a result
DeltasHandler(batch) ==
  /\ IF batch = <<>> \/ ~deltaStreams.defined \/ deltaStreams.streams = <<>>
       THEN /\ aEvent' = DeltasEvent("ignored", batch)
            /\ UNCHANGED <<deltaStreams, cursors>>
            /\ NoPublish
     ELSE LET scan == newDeltasByStream(batch) IN
       IF scan.error
         THEN /\ aEvent' = DeltasEvent("error", batch)
              /\ UNCHANGED <<deltaStreams, cursors>>
              /\ NoPublish
       ELSE IF scan.new = NoNewDeltas
         THEN /\ aEvent' = DeltasEvent("ignored", batch)
              /\ UNCHANGED <<deltaStreams, cursors>>
              /\ NoPublish
       ELSE LET next == [i \in 1..Len(deltaStreams.streams) |->
                           appendDeltas(deltaStreams.streams[i],
                             scan.new[deltaStreams.streams[i]
                                        .streamMessage.streamId])]
                grown == {s \in TrackedIds(deltaStreams) : scan.new[s] # <<>>}
            IN /\ deltaStreams' = Defined(next)
               /\ cursors' = [s \in DOMAIN cursors \cup grown |->
                                IF s \in grown
                                  THEN LET b == BufferOf(Defined(next), s)
                                       IN b[Len(b)].end
                                  ELSE cursors[s]]
               /\ Publish(Defined(next))
               /\ aEvent' = DeltasEvent("applied", batch)
  /\ UNCHANGED <<sArgs, threadId, startOrder, optionStart, listStart>>
  /\ UNCHANGED <<mergeVars, histVars>>

DeltasUpdate(batch) == DeltasHandler(batch) /\ UNCHANGED batchVars

\* a materialization pass reaches the check of controller.signal.aborted
PassComplete(i) ==
  /\ passes' = RemoveAt(passes, i)
  /\ IF passes[i].aborted
       THEN /\ mEvent' = [op |-> "passDropped", current |-> passes[i].current]
            /\ UNCHANGED uiPublished
       ELSE /\ uiPublished' = Defined(materializeAll(passes[i].input))
            /\ mEvent' = [op |-> "passPublished", current |-> passes[i].current]
  /\ UNCHANGED <<subscribed, aggVars, batchVars>>
  /\ UNCHANGED <<mergeVars, histVars>>

StreamIdle(sub) ==
  /\ sArgs = "skip"
  /\ threadId = "undefined"
  /\ startOrder = 0
  /\ optionStart = -1
  /\ listStart = -1
  /\ deltaStreams = Undefined
  /\ cursors = NoCursors
  /\ aggPublished = Undefined
  /\ aEvent = AEvent("init", "ok")
  /\ subscribed = sub
  /\ uiPublished = Undefined
  /\ passes = <<>>
  /\ mEvent = [op |-> "init", current |-> FALSE]
  /\ fullSeq = <<>>
  /\ delivered = 0

\* the state after construction with the arguments a and no startOrder option
StreamInit(sub) ==
  \E a \in ArgsValues :
    /\ sArgs = a
    /\ threadId = IF a = "skip" THEN "undefined" ELSE a
    /\ startOrder = 0
    /\ optionStart = -1
    /\ listStart = -1
    /\ deltaStreams = Undefined
    /\ cursors = NoCursors
    /\ aggPublished = Undefined
    /\ aEvent = AEvent("init", "ok")
    /\ subscribed = sub
    /\ uiPublished = Undefined
    /\ passes = <<>>
    /\ mEvent = [op |-> "init", current |-> FALSE]
    /\ fullSeq = <<>>
    /\ delivered = 0

----------------------------------------------------------------------------
\* Specifications

InitMerge == MergeInit /\ HistIdle /\ StreamIdle(FALSE)

NextMerge == Dedupe

SpecMerge == InitMerge /\ [][NextMerge]_vars

InitHistory == MergeIdle /\ HistInit /\ StreamIdle(FALSE)

SpecHistory == InitHistory /\ [][HistNext]_vars

\* useStreamingUIMessages: the aggregator with the materializer subscribed
\* useDeltaStreams on its own
\* here the arguments are one thread that is skipped and resumed; changes
\* from one thread to another are driven by the other specifications
AggregatorArgs == {"skip", "A"}

InitAggregator ==
  MergeIdle /\ HistIdle /\ StreamInit(FALSE) /\ sArgs \in AggregatorArgs

NextAggregator ==
  \/ \E a \in AggregatorArgs : StreamArgsChange(a)
  \/ \E ids \in SUBSET StreamIds : ListUpdate(ids)
  \/ \E batch \in Batches : DeltasUpdate(batch)

SpecAggregator == InitAggregator /\ [][NextAggregator]_vars

\* useStreamingUIMessages: the aggregator with the materializer subscribed,
\* fed with one stream whose deltas arrive one at a time
OneStream == {"s1"}
OneDeltaBatches ==
  {<<d>> : d \in {e \in UnitDeltas : e.streamId \in OneStream}}

InitStreaming == MergeIdle /\ HistIdle /\ StreamInit(TRUE)

NextStreaming ==
  \/ \E a \in ArgsValues : StreamArgsChange(a)
  \/ \E ids \in SUBSET OneStream : ListUpdate(ids)
  \/ \E batch \in OneDeltaBatches : DeltasUpdate(batch)
  \/ \E i \in 1..Len(passes) : PassComplete(i)

SpecStreaming == InitStreaming /\ [][NextStreaming]_vars

\* useStreamingUIMessages fed with one contiguous delta sequence of a stream,
\* cut into successive batches
ContiguousFromZero(ds) ==
  /\ ds[1].start = 0
  /\ \A i \in 1..(Len(ds) - 1) : ds[i + 1].start = ds[i].end

DeltaSequences(s) ==
  {ds \in UNION {[1..n -> {d \in Deltas : d.streamId = s}] : n \in 1..MaxDeltas} :
     ContiguousFromZero(ds)}

SeqStream == fullSeq[1].streamId

InitBatch ==
  /\ MergeIdle /\ HistIdle
  /\ \E a \in Threads :
       /\ sArgs = a
       /\ threadId = a
  /\ startOrder = 0
  /\ optionStart = -1
  /\ listStart = -1
  /\ deltaStreams = Undefined
  /\ cursors = NoCursors
  /\ aggPublished = Undefined
  /\ aEvent = AEvent("init", "ok")
  /\ subscribed = TRUE
  /\ uiPublished = Undefined
  /\ passes = <<>>
  /\ mEvent = [op |-> "init", current |-> FALSE]
  /\ \E s \in StreamIds : fullSeq \in DeltaSequences(s)
  /\ delivered = 0

\* the list feed reports the stream (alone or with the other one)
FirstSnapshot(ids) ==
  /\ ~deltaStreams.defined
  /\ SeqStream \in ids
  /\ ListUpdate(ids)

\* the deltas feed delivers the next k deltas of the sequence
DeliverBatch(k) ==
  /\ Tracked(SeqStream)
  /\ delivered + k <= Len(fullSeq)
  /\ DeltasHandler(SubSeq(fullSeq, delivered + 1, delivered + k))
  /\ delivered' = delivered + k
  /\ UNCHANGED fullSeq

NextBatch ==
  \/ \E ids \in SUBSET StreamIds : FirstSnapshot(ids)
  \/ \E k \in 1..MaxDeltas : DeliverBatch(k)
  \/ \E i \in 1..Len(passes) : PassComplete(i)

SpecBatch == InitBatch /\ [][NextBatch]_vars

----------------------------------------------------------------------------
\* Properties of the history engine (SpecHistory)

\* C1: every output of dedupeMessages is strictly ascending by
\* (order, stepOrder), hence holds no key twice: the accumulated historical
\* pages and the published merge of historical and latest pages, whatever
\* pages (overlapping, unsorted, of any status) the fetches returned.
Thm1_StrictlyAscending ==
  /\ StrictlyAscending(historical)
  /\ StrictlyAscending(store.results)

\* two loadMore pages and the latest page overlap, and both keys are kept once
Wit1_OverlappingPages ==
  /\ hEvent.op = "olderResolved"
  /\ Len(historical) = 2
  /\ Len(latest) = 2
  /\ Len(store.results) = 2

OlderInFlight == {i \in 1..Len(fetches) : fetches[i].kind = "older"}

paginationVars == <<currentArgs, historical, latest, nextCursor,
                    loadingInitial, loadingOlder, store, fetches, olderPromise>>

\* C4: at most one older-page fetch is in flight at any time, and a loadMore
\* call that finds a fetch in flight, no nextCursor, "skip" arguments or
\* n <= 0 issues no query and changes no pagination state or published value.
Thm4_SingleFlight ==
  /\ [](Cardinality(OlderInFlight) <= 1)
  /\ [][(hEvent'.op = "loadMore" /\ LoadMoreInactive(hEvent'.n))
          => UNCHANGED paginationVars]_vars

\* a loadMore call with n > 0, arguments and a cursor has just returned
\* without issuing anything: the one older-page fetch in flight is an earlier
\* one, issued before the arguments changed
Wit4_CoalescedCall ==
  /\ hEvent.op = "loadMore"
  /\ hEvent.n > 0
  /\ currentArgs # "skip"
  /\ nextCursor # "null"
  /\ loadingOlder
  /\ Cardinality(OlderInFlight) = 1
  /\ \E i \in OlderInFlight : fetches[i].args # currentArgs

\* C5: a one-shot fetch issued under one argument identity that completes
\* under another changes neither historical, latest nor nextCursor, and the
\* published results only hold messages of the current identity.
Claim5_StaleFetchDiscarded ==
  /\ [][(hEvent'.op \in {"initialResolved", "olderResolved"}
          /\ currentArgs' # "skip" /\ hEvent'.args # currentArgs')
          => UNCHANGED <<historical, latest, nextCursor>>]_vars
  /\ [](currentArgs # "skip" =>
          \A i \in 1..Len(store.results) : store.results[i].text = currentArgs)

AllowedTransitions ==
  {<<"LoadingFirstPage", "CanLoadMore">>, <<"LoadingFirstPage", "Exhausted">>,
   <<"CanLoadMore", "LoadingMore">>, <<"LoadingMore", "CanLoadMore">>,
   <<"LoadingMore", "Exhausted">>}

\* C9: while the arguments do not change, the published status only moves
\* along LoadingFirstPage -> {CanLoadMore, Exhausted}, CanLoadMore ->
\* LoadingMore and LoadingMore -> {CanLoadMore, Exhausted}; in particular
\* Exhausted is not left.
Claim9_StatusMachine ==
  [][(currentArgs' = currentArgs /\ store'.status # store.status)
       => <<store.status, store'.status>> \in AllowedTransitions]_vars

\* C10: a rejected one-shot fetch clears its loading flag and republishes the
\* status, changes neither historical, latest nor nextCursor, and a rejected
\* loadMore fetch rejects the promise of the loadMore call.
Thm10_FetchFailure ==
  [][/\ hEvent'.op = "initialRejected" =>
          /\ ~loadingInitial'
          /\ UNCHANGED <<historical, latest, nextCursor>>
          /\ store' = StoreValue(currentArgs', historical', latest',
                                 nextCursor', loadingInitial', loadingOlder')
     /\ hEvent'.op = "olderRejected" =>
          /\ ~loadingOlder'
          /\ olderPromise' = "rejected"
          /\ UNCHANGED <<historical, latest, nextCursor>>
          /\ store' = StoreValue(currentArgs', historical', latest',
                                 nextCursor', loadingInitial', loadingOlder')
    ]_vars

\* a loadMore fetch was rejected and the engine is back at CanLoadMore
Wit10_RejectedLoadMore ==
  /\ hEvent.op = "olderRejected"
  /\ olderPromise = "rejected"
  /\ store.status = "CanLoadMore"
  /\ ~store.isLoading
----------------------------------------------------------------------------
\* Properties of the merger (SpecMerge)

KeysOf(s) == {<<s[i].order, s[i].stepOrder>> : i \in 1..Len(s)}

EntriesAt(s, k) == {i \in 1..Len(s) : <<s[i].order, s[i].stepOrder>> = k}

\* C2: for every key of the inputs the output holds one entry, and when any
\* input entry of the key is decided (neither pending nor streaming) that
\* entry is decided too, wherever the decided entry stands in the inputs.
Thm2_DecidedWins ==
  mergeDone =>
    LET input == messages \o streamMessages IN
    \A k \in KeysOf(input) :
      /\ Cardinality(EntriesAt(merged, k)) = 1
      /\ (\E i \in EntriesAt(input, k) : ~Provisional(input[i].status))
           => \A j \in EntriesAt(merged, k) : ~Provisional(merged[j].status)

\* history first: a decided history entry meets a streaming entry of the
\* streaming view for the same key, and the decided one is published
Wit2_HistoryWins ==
  /\ mergeDone
  /\ messages = <<Msg(<<1, 0>>, "finalized", "A")>>
  /\ streamMessages = <<Msg(<<1, 0>>, "streaming", "B")>>
  /\ merged = <<Msg(<<1, 0>>, "finalized", "A")>>

----------------------------------------------------------------------------
\* Properties of the aggregator (SpecAggregator)

\* what the step appended to the buffer of s, when it only appended
Appended(s) ==
  SubSeq(BufferOf(deltaStreams', s), Len(BufferOf(deltaStreams, s)) + 1,
         Len(BufferOf(deltaStreams', s)))

GrewBuffer(s) ==
  /\ Tracked(s)
  /\ deltaStreams'.defined /\ s \in TrackedIds(deltaStreams')
  /\ BufferOf(deltaStreams', s) # BufferOf(deltaStreams, s)

\* C3: a delta beyond the cursor of its tracked stream, a cursor of 0
\* included, raises the integrity error and is never appended to the buffer.
Claim3_GapRejected ==
  /\ []((aEvent.op = "deltas" /\ aEvent.gap) => aEvent.outcome = "error")
  /\ [][\A s \in StreamIds :
          GrewBuffer(s) =>
            Appended(s)[1].start <= CursorValue(cursors, s)]_vars

\* C8: a delta that lies before the cursor of its stream is discarded: it
\* raises no error, and it leaves the buffers and cursors as they are; no
\* delta lying before the cursor is ever appended.
Thm8_ReplayDiscarded ==
  /\ []((aEvent.op = "deltas" /\ aEvent.replay) => aEvent.outcome = "ignored")
  /\ [][(aEvent'.op = "deltas" /\ aEvent'.replay)
          => UNCHANGED <<deltaStreams, cursors, aggPublished>>]_vars
  /\ [][\A s \in StreamIds :
          GrewBuffer(s) =>
            /\ SubSeq(BufferOf(deltaStreams', s), 1,
                      Len(BufferOf(deltaStreams, s))) = BufferOf(deltaStreams, s)
            /\ Appended(s)[1].start >= CursorValue(cursors, s)]_vars

\* two contiguous deltas were consumed and a replay of consumed data was
\* just discarded
Wit8_ReplayAfterTwo ==
  /\ aEvent.op = "deltas"
  /\ aEvent.replay
  /\ aEvent.outcome = "ignored"
  /\ Tracked("s1")
  /\ Len(BufferOf(deltaStreams, "s1")) = 2
  /\ cursors["s1"] = BufferOf(deltaStreams, "s1")[2].end

----------------------------------------------------------------------------
\* Properties of the materializer (SpecStreaming)

\* C6: a pass publishes only while it is the most recently started pass; a
\* pass that completes after a newer one was started leaves the published
\* value as it is.
Thm6_LastWriteWins ==
  /\ [](mEvent.op = "passPublished" => mEvent.current)
  /\ [][(mEvent'.op \in {"passPublished", "passDropped"} /\ ~mEvent'.current)
          => UNCHANGED uiPublished]_vars

\* a superseded pass completed after the newer pass had published, and the
\* published value is still that of the newer pass
Wit6_StalePassDropped ==
  /\ mEvent.op = "passDropped"
  /\ ~mEvent.current
  /\ passes = <<>>
  /\ aggPublished.defined
  /\ aggPublished.streams # <<>>
  /\ uiPublished = Defined(materializeAll(aggPublished.streams))
  /\ uiPublished.streams[1].parts # <<>>

----------------------------------------------------------------------------
\* Properties of batched delivery (SpecBatch)

\* C7: however a contiguous delta sequence starting at offset 0 is cut into
\* batches, the buffer holds exactly the deltas delivered so far, in order;
\* after the last batch it is the whole sequence, which is what the pass
\* started by that batch reads and publishes.
Thm7_BatchingIndependence ==
  Tracked(SeqStream) =>
    /\ BufferOf(deltaStreams, SeqStream) = SubSeq(fullSeq, 1, delivered)
    /\ \A i \in 1..Len(passes) :
         passes[i].current =>
           BufferOf(Defined(passes[i].input), SeqStream)
             = SubSeq(fullSeq, 1, delivered)
    /\ (delivered = Len(fullSeq) /\ mEvent.op = "passPublished") =>
         \E i \in 1..Len(uiPublished.streams) :
           uiPublished.streams[i] =
             [streamId |-> SeqStream,
              parts |-> [j \in 1..Len(fullSeq) |->
                           <<fullSeq[j].start, fullSeq[j].end>>]]

\* a sequence of three deltas arrived in more than one batch (the pass of an
\* earlier batch is still in flight, aborted) and the pass of the last batch
\* has published
Wit7_SplitDelivery ==
  /\ Len(fullSeq) = 3
  /\ delivered = 3
  /\ mEvent.op = "passPublished"
  /\ Len(passes) = 1
  /\ passes[1].aborted

----------------------------------------------------------------------------
\* Further properties of the history engine (SpecHistory)

\* C11: right after the argument value changes, to another identity or to
\* skip, the historical accumulation and the latest page are empty,
\* nextCursor is null, the published results are empty and the published
\* status is LoadingFirstPage, whatever the state before the change.
Thm11_ArgsChangeResets ==
  hEvent.op = "argsChange" =>
    /\ historical = <<>>
    /\ latest = <<>>
    /\ nextCursor = "null"
    /\ store.results = <<>>
    /\ store.status = "LoadingFirstPage"
    /\ store.isLoading

\* the arguments have just changed to another thread while an older-page
\* fetch of the previous one is still in flight
Wit11_ChangeWhileLoadingMore ==
  /\ hEvent.op = "argsChange"
  /\ currentArgs # "skip"
  /\ loadingOlder
  /\ \E i \in OlderInFlight : fetches[i].args # currentArgs

----------------------------------------------------------------------------
\* Further properties of the aggregator

\* C12: whenever the arguments become skip, or change from one thread to
\* another, the aggregator empties the cursor map, drops every delta buffer
\* and publishes undefined, which is not the empty list: no cursor and no
\* buffered delta of the previous thread context survives.
Thm12_AggregatorReset ==
  [][(sArgs' # sArgs /\ (sArgs' = "skip" \/ sArgs # "skip"))
       => /\ cursors' = NoCursors
          /\ deltaStreams' = Undefined
          /\ aggPublished' = Undefined
          /\ aggPublished' # Defined(<<>>)
          /\ threadId' = (IF sArgs' = "skip" THEN "undefined" ELSE sArgs')]_vars

\* the arguments have just changed from one thread to the other, while a
\* pass over the buffered deltas of the previous thread is still in flight
Wit12_ThreadChanged ==
  /\ aEvent = AEvent("args", "reset")
  /\ sArgs \in Threads
  /\ threadId = sArgs
  /\ cursors = NoCursors
  /\ \E i \in 1..Len(passes) : passes[i].input[1].deltas # <<>>

----------------------------------------------------------------------------
\* Further properties of the materializer (SpecStreaming)

\* C13: while the value last published by the aggregator is undefined, the
\* value published by the materializer is undefined, and while it is a list
\* of zero streams, the published value is the empty sequence: whatever
\* passes were in flight when that state arrived, the published value stays
\* that way until the aggregator publishes a non-empty state.
Claim13_EmptyStateSticks ==
  /\ ~aggPublished.defined => uiPublished = Undefined
  /\ aggPublished = Defined(<<>>) => uiPublished = Defined(<<>>)

----------------------------------------------------------------------------
\* Further properties of the merger (SpecMerge)

FirstAt(s, k) == s[CHOOSE i \in EntriesAt(s, k) : \A j \in EntriesAt(s, k) : i <= j]

\* C14: when every input entry of a key is pending or streaming, the merge
\* output keeps, for that key, the entry that comes first in the sorted
\* concatenation of the inputs, for every combination of the two statuses.
Claim14_FirstProvisionalKept ==
  mergeDone =>
    LET input == sorted(messages \o streamMessages) IN
    \A k \in KeysOf(input) :
      (\A i \in EntriesAt(input, k) : Provisional(input[i].status))
        => FirstAt(merged, k) = FirstAt(input, k)

\* dedupeMessages applied to one sequence, as the history engine calls it:
\* every output of the merger is the output of such a call (SpecRemerge)
InitRemerge ==
  /\ HistIdle /\ StreamIdle(FALSE)
  /\ messages \in SeqsUpTo(Messages, MaxLen)
  /\ streamMessages = <<>>
  /\ merged = <<>>
  /\ mergeDone = FALSE

NextRemerge == Dedupe

SpecRemerge == InitRemerge /\ [][NextRemerge]_vars

\* C15: merging a merge output with itself, or merging it again with
\* nothing, yields the same sequence: dedupeMessages(s, s) = s and
\* dedupeMessages(s, []) = s for every output s of dedupeMessages.
Thm15_MergeIdempotent ==
  mergeDone =>
    /\ dedupeMessages(merged, merged) = merged
    /\ dedupeMessages(merged, <<>>) = merged

\* an output of two keys, one of them still streaming, that came from inputs
\* holding a key twice
Wit15_OutputOfTwoKeys ==
  /\ mergeDone
  /\ Len(messages) = 3
  /\ Len(merged) = 2
  /\ \E i \in 1..2 : merged[i].status = "streaming"
  /\ \E i \in 1..2 : merged[i].status = "pending"

----------------------------------------------------------------------------
\* useUIMessages: the reconciliation facade, whose subscribers to the history
\* engine and to the streaming view run inside the set that notifies them

\* readable(undefined, () => () => {}): the streaming view of a facade
\* built without options.stream
streamingDisabled == Undefined

emitResultsOnly(paginatedValue, streamingValue) ==
  [results   |-> mergeMessages(paginatedValue.results,
                               IF streamingValue.defined
                                 THEN streamingValue.streams ELSE <<>>),
   status    |-> "LoadingFirstPage",
   isLoading |-> TRUE]

\* emit(): set({...paginatedValue, results: merged})
emit(paginatedValue, streamingValue) ==
  [paginatedValue EXCEPT
     !.results = mergeMessages(paginatedValue.results,
                               IF streamingValue.defined
                                 THEN streamingValue.streams ELSE <<>>)]

\* the value the facade publishes when the history engine publishes store
combinedWithoutStream == emit(store, streamingDisabled)

\* C16: with streaming disabled, after any sequence of argument changes,
\* live-feed updates, fetch completions and loadMore calls, the value the
\* facade publishes has the results (same messages, same order), the status
\* and the loading flag of the value the history engine published.
Thm16_FacadeIsHistory ==
  /\ combinedWithoutStream.results = store.results
  /\ combinedWithoutStream.status = store.status
  /\ combinedWithoutStream.isLoading = store.isLoading

\* the history engine has published two messages, one of them streaming,
\* with more to load
Wit16_PublishedPage ==
  /\ Len(store.results) = 2
  /\ store.results[2].status = "streaming"
  /\ store.status = "CanLoadMore"
  /\ combinedWithoutStream.results = store.results

----------------------------------------------------------------------------
\* useDeltaStreams with a startOrder option that changes: the arguments of
\* the list query (SpecListQuery)

\* values of options.startOrder: undefined (-1) and requested start orders
StartOptions == {-1, 0, 7, 12, 25}

StreamsActive == deltaStreams.defined /\ deltaStreams.streams # <<>>

\* cacheFriendlyStartOrder(): the value it leaves in state.startOrder
cacheFriendlyStartOrder ==
  IF StreamsActive \/ (optionStart # -1 /\ optionStart < startOrder)
    THEN normalizeStart(IF optionStart # -1 THEN optionStart ELSE 0)
    ELSE startOrder

\* the arguments function of listQuery runs: buildListArgs(getArgs(),
\* cacheFriendlyStartOrder())
ListArgs ==
  /\ startOrder' = cacheFriendlyStartOrder
  /\ listStart' = IF sArgs = "skip" THEN -1
                  ELSE IF startOrder' < 0 THEN 0 ELSE startOrder'
  /\ aEvent' = AEvent("listArgs", "ok")
  /\ UNCHANGED <<sArgs, threadId, optionStart, deltaStreams, cursors,
                 aggPublished>>
  /\ UNCHANGED <<matVars, batchVars, mergeVars, histVars>>

\* the caller changes options.startOrder
OptionChange(o) ==
  /\ o # optionStart
  /\ optionStart' = o
  /\ aEvent' = AEvent("option", "ok")
  /\ UNCHANGED <<sArgs, threadId, startOrder, listStart, deltaStreams, cursors,
                 aggPublished>>
  /\ UNCHANGED <<matVars, batchVars, mergeVars, histVars>>

InitListQuery ==
  /\ MergeIdle /\ HistIdle
  /\ \E a \in ArgsValues, o \in StartOptions :
       /\ sArgs = a
       /\ threadId = IF a = "skip" THEN "undefined" ELSE a
       /\ optionStart = o
       /\ startOrder = normalizeStart(IF o = -1 THEN 0 ELSE o)
  /\ listStart = -1
  /\ deltaStreams = Undefined
  /\ cursors = NoCursors
  /\ aggPublished = Undefined
  /\ aEvent = AEvent("init", "ok")
  /\ subscribed = FALSE
  /\ uiPublished = Undefined
  /\ passes = <<>>
  /\ mEvent = [op |-> "init", current |-> FALSE]
  /\ fullSeq = <<>>
  /\ delivered = 0

NextListQuery ==
  \/ \E a \in ArgsValues : StreamArgsChange(a)
  \/ \E ids \in SUBSET StreamIds : ListUpdate(ids)
  \/ \E o \in StartOptions : OptionChange(o)
  \/ ListArgs

SpecListQuery == InitListQuery /\ [][NextListQuery]_vars

\* C17: the start order sent in the list query is a non-negative multiple of
\* 10, and while at least one stream is active it never increases from one
\* computation of the list-query arguments to the next one with no reset in
\* between, whatever the requested start order does.
Claim17_QuantizedDownward ==
  /\ [](listStart # -1 => (listStart >= 0 /\ listStart % 10 = 0))
  /\ [][(aEvent'.op = "listArgs" /\ listStart # -1 /\ listStart' # -1
          /\ StreamsActive)
         => listStart' <= listStart]_vars

----------------------------------------------------------------------------
\* The live feed and the initial load (SpecHistory)

\* C18: once a live-feed result has arrived for the current argument
\* identity, the latest page is the page of the most recent live-feed
\* result: an initial fetch of the same identity that completes right after
\* a live-feed result leaves the latest page as the live feed set it.
Claim18_LiveSupersedesInitial ==
  [][(/\ hEvent.op = "liveUpdate"
      /\ currentArgs # "skip"
      /\ hEvent'.op = "initialResolved"
      /\ hEvent'.args = currentArgs)
     => latest' = latest]_vars

----------------------------------------------------------------------------
\* List snapshots: useDeltaStreams fed with snapshots of both streams and
\* with deltas that arrive one at a time (SpecSnapshots)

SingleDeltaBatches == {<<d>> : d \in UnitDeltas}

InitSnapshots == MergeIdle /\ HistIdle /\ StreamInit(FALSE)

NextSnapshots ==
  \/ \E a \in ArgsValues : StreamArgsChange(a)
  \/ \E ids \in SUBSET StreamIds : ListUpdate(ids)
  \/ \E batch \in SingleDeltaBatches : DeltasUpdate(batch)

SpecSnapshots == InitSnapshots /\ [][NextSnapshots]_vars

\* the step left the tracked streams as they were and appended to the buffer
\* of each only deltas of that stream
OwnDeltasOnly ==
  /\ deltaStreams'.defined = deltaStreams.defined
  /\ deltaStreams.defined =>
       /\ TrackedIds(deltaStreams') = TrackedIds(deltaStreams)
       /\ \A s \in TrackedIds(deltaStreams) :
            LET old == BufferOf(deltaStreams, s)
                new == BufferOf(deltaStreams', s)
            IN /\ Len(new) >= Len(old)
               /\ SubSeq(new, 1, Len(old)) = old
               /\ \A i \in (Len(old) + 1)..Len(new) : new[i].streamId = s

Claim20_CursorMatchesBuffer ==
  deltaStreams.defined =>
    \A s \in TrackedIds(deltaStreams) :
      LET buffer == BufferOf(deltaStreams, s) IN
      /\ \A i \in 1..(Len(buffer) - 1) : buffer[i + 1].start = buffer[i].end
      /\ CursorValue(cursors, s) =
           IF buffer = <<>> THEN 0 ELSE buffer[Len(buffer)].end

----------------------------------------------------------------------------
\* The integrity error and the batch that raised it (SpecAggregator)

\* C23: when the processing of a batch raises the gap error, for any stream
\* and at any position of the batch, no delta of the batch is appended to
\* any buffer, no cursor changes and nothing is published: buffers, cursors
\* and the published state are exactly as before the batch.
Thm23_ErrorLeavesState ==
  [][(aEvent'.op = "deltas" /\ aEvent'.outcome = "error")
     => /\ deltaStreams' = deltaStreams
        /\ cursors' = cursors
        /\ aggPublished' = aggPublished
        /\ UNCHANGED matVars]_vars

\* a batch has just raised the error for a gap while both streams are
\* tracked, one with buffered deltas and one with none
Wit23_GapWithTwoStreams ==
  /\ aEvent.op = "deltas"
  /\ aEvent.outcome = "error"
  /\ aEvent.gap
  /\ Tracked("s1") /\ Tracked("s2")
  /\ BufferOf(deltaStreams, "s1") # <<>>
  /\ BufferOf(deltaStreams, "s2") = <<>>

----------------------------------------------------------------------------
\* Backward pagination within one argument identity: the live query and the
\* initial fetch ask for the first page, whose continuation cursor is "c1";
\* the page after "c1" continues at "c2" and the page after "c2" is the last
\* (SpecPagination)

FirstPageResults(a) ==
  {r \in [page : Pages(a), isDone : BOOLEAN, continueCursor : {"c1", "null"}] :
     r.isDone <=> r.continueCursor = "null"}

PageAfterResults(a, cursor) ==
  {r \in [page : Pages(a), isDone : BOOLEAN,
          continueCursor : IF cursor = "c1" THEN {"c2", "null"} ELSE {"null"}] :
     r.isDone <=> r.continueCursor = "null"}

InitPagination ==
  MergeIdle /\ HistInit /\ currentArgs = "A" /\ StreamIdle(FALSE)

NextPagination ==
  \/ \E result \in FirstPageResults(currentArgs) : LiveUpdate(result)
  \/ \E n \in NumItems : LoadMore(n)
  \/ \E i \in 1..Len(fetches) :
       \E result \in FirstPageResults(fetches[i].args) :
         InitialResolve(i, result)
  \/ \E i \in 1..Len(fetches) :
       \E result \in PageAfterResults(fetches[i].args, fetches[i].cursor) :
         OlderResolve(i, result)
  \/ \E i \in 1..Len(fetches) : FetchReject(i)

SpecPagination == InitPagination /\ [][NextPagination]_vars

\* C22: within one argument identity, after a loadMore fetch has completed
\* with continuation cursor c, nextCursor stays c until the next older-page
\* fetch completes: a live-feed update of the latest page that arrives after
\* the completion, and is not the last page, leaves nextCursor at c and does
\* not move it back to the continuation cursor of the first page.
Claim22_PaginationProgress ==
  [][(/\ olderPromise = "fulfilled"
      /\ nextCursor # "null"
      /\ hEvent'.op = "liveUpdate"
      /\ nextCursor' # "null")
     => nextCursor' = nextCursor]_vars

----------------------------------------------------------------------------
\* The loading flags under fair completion of the one-shot fetches: every
\* client.query promise settles, so the oldest fetch in flight settles
\* (SpecLoading)

\* the results that matter to the flags: an empty or one-message page, with
\* or without a continuation cursor
LoadingResults(a) ==
  {r \in [page : {<<>>, <<Msg(<<1, 1>>, "finalized", a)>>}, isDone : BOOLEAN,
          continueCursor : Cursors \cup {"null"}] :
     r.isDone <=> r.continueCursor = "null"}

NextLoading ==
  \/ \E a \in ArgsValues : ArgsChange(a)
  \/ LiveUpdateSkip
  \/ \E result \in LoadingResults(currentArgs) : LiveUpdate(result)
  \/ \E n \in NumItems : LoadMore(n)
  \/ \E i \in 1..Len(fetches) :
       \E result \in LoadingResults(fetches[i].args) : InitialResolve(i, result)
  \/ \E i \in 1..Len(fetches) :
       \E result \in LoadingResults(fetches[i].args) : OlderResolve(i, result)
  \/ \E i \in 1..Len(fetches) : FetchReject(i)

SettleOldest ==
  \/ \E result \in LoadingResults(fetches[1].args) : InitialResolve(1, result)
  \/ \E result \in LoadingResults(fetches[1].args) : OlderResolve(1, result)
  \/ FetchReject(1)

SpecLoading ==
  InitHistory /\ [][NextLoading]_vars
    /\ WF_vars(fetches # <<>> /\ SettleOldest)

\* C21: if the arguments are active and stop changing, and every issued
\* fetch resolves or rejects, the status becomes CanLoadMore or Exhausted
\* again and again and neither loadingInitial nor loadingOlder stays set
\* forever, also when a loadMore fetch was in flight while the arguments
\* changed.
Thm21_LoadingEnds ==
  \A a \in Threads :
    <>[](currentArgs = a)
      => /\ []<>(store.status \in {"CanLoadMore", "Exhausted"})
         /\ []<>(~loadingInitial)
         /\ []<>(~loadingOlder)

\* the older-page fetch issued under the previous arguments has just
\* settled under the current ones and the engine is no longer loading
Wit21_StaleLoadMoreSettled ==
  /\ currentArgs \in Threads
  /\ hEvent.op \in {"olderResolved", "olderRejected"}
  /\ hEvent.args \in Threads
  /\ hEvent.args # currentArgs
  /\ ~loadingInitial
  /\ ~loadingOlder
  /\ fetches = <<>>
  /\ store.status \in {"CanLoadMore", "Exhausted"}

====
